---- MODULE Spec2Model ----
(***************************************************************************)
(* Olympic medal dashboard (Homework3 App with the treemap, the zoomable  *)
(* medal timeline and the discipline heatmap).                            *)
(*                                                                        *)
(* The module models                                                      *)
(*   - the selection state held by Layout (App.tsx),                      *)
(*   - the three views' component state (data, size, zoom transform),     *)
(*   - React's commit / effect cycle for the effects the views declare,   *)
(*   - the aggregation each render effect computes from the records.      *)
(***************************************************************************)
EXTENDS Integers, Sequences, FiniteSets, TLC

VARIABLES
    selectedCountryCode,   \* Layout state, App.tsx:24
    selectedCountryName,   \* Layout state, App.tsx:25
    selectedDiscipline,    \* Layout state, App.tsx:26 (NULL = all disciplines)
    tmData, tmSize, tmLoad, tmView,      \* CountryTreemap
    tlData, tlSize, tlLoad, tlView,      \* MedalTimeline
    zoomTransform,         \* MedalTimeline state, part_000:43
    zoomQueued,            \* value the queued setZoomTransform calls will commit
    svgZoom,               \* the svg element's __zoom property (d3-zoom)
    zoomBound,             \* zoom listeners attached to #timeline-svg
    hmData, hmSize, hmLoad, hmView,      \* DisciplineHeatmap
    pending,               \* effects of the current commit still to run, in order
    consoleErrors,         \* messages written with console.error
    tooltip,               \* the #timeline-tooltip element, part_000:275
    lastEvent              \* history: the most recent user event

appVars == <<selectedCountryCode, selectedCountryName, selectedDiscipline>>
tmVars == <<tmData, tmSize, tmLoad, tmView>>
tlVars == <<tlData, tlSize, tlLoad, tlView, zoomTransform, zoomQueued, svgZoom, zoomBound>>
hmVars == <<hmData, hmSize, hmLoad, hmView>>
vars == <<appVars, tmVars, tlVars, hmVars, pending, consoleErrors, tooltip, lastEvent>>

NULL == "null"

----------------------------------------------------------------------------
(* Bounds of the model *)

\* longest medals.csv drawn from RowPool
MaxRows == 3
\* longest tail appended to the thirteen-discipline base file
MaxTail == 2
\* largest pan offset (in either direction) a gesture may reach
MaxPan == 1
\* ticks per day in which pointed dates are measured
TicksPerDay == 4

(* Program constants *)

\* .slice(0, 12)
TopLimit == 12
\* .scaleExtent([1, 32])
MinScale == 1
MaxScale == 32

----------------------------------------------------------------------------
(* Sequence helpers *)

Range(s) == {s[i] : i \in 1..Len(s)}

Front(s) == SubSeq(s, 1, Len(s) - 1)

SeqsUpTo(S, n) == UNION {[1..k -> S] : k \in 0..n}

Min2(a, b) == IF a <= b THEN a ELSE b

\* the distinct elements of s in first-encountered order (the key order of an
\* InternMap, which d3.rollups returns)
RECURSIVE Distinct(_)
Distinct(s) ==
    IF s = <<>> THEN <<>>
    ELSE LET front == Distinct(Front(s))
             last == s[Len(s)]
         IN  IF last \in Range(front) THEN front ELSE Append(front, last)

----------------------------------------------------------------------------
(* Records of medals.csv and medals_total.csv *)

medalTypes == <<"Gold Medal", "Silver Medal", "Bronze Medal">>

Row(mt, date, cc, disc) ==
    [medal_type |-> mt, medal_date |-> date, country_code |-> cc, discipline |-> disc]

\* A medal_date is text; it is kept as its '-'-separated fields, <<>> being
\* the empty string.
D0728 == <<"2024", "07", "28">>
D0729 == <<"2024", "07", "29">>
D728 == <<"2024", "7", "28">>
D072x == <<"2024", "07", "2x">>
NoText == <<>>

\* numberRe = /^\s*\d+/ on a field: the number a digit-only field denotes
DigitText ==
    ("2024" :> 2024) @@ ("07" :> 7) @@ ("7" :> 7) @@ ("08" :> 8) @@
    ("28" :> 28) @@ ("29" :> 29) @@ ("32" :> 32) @@ ("01" :> 1) @@ ("1" :> 1)

InvalidDate == -1

\* days before the first of each month of 2024
MonthStart == <<0, 31, 60, 91, 121, 152, 182, 213, 244, 274, 305, 335>>

\* new Date(y, m, d).getTime(), in days since 2023-12-31 (m counts from 0); the
\* Date constructor carries a day past the month's end into the next month and
\* a month past December into the next year (every year counted as 366 days)
localDate(y, m, d) == (y - 2024 + (m \div 12)) * 366 + MonthStart[(m % 12) + 1] + d

\* d3.timeParse('%Y-%m-%d'): null unless every field is digits only; %m and %d
\* accept unpadded numbers and no field is range-checked
parseDate(text) ==
    IF Len(text) # 3 THEN InvalidDate
    ELSE IF \E i \in 1..3 : text[i] \notin DOMAIN DigitText THEN InvalidDate
    ELSE localDate(DigitText[text[1]], DigitText[text[2]] - 1, DigitText[text[3]])

----------------------------------------------------------------------------
(* MedalTimeline: the series the render effect draws *)

\* rows.filter((d) => d.medal_date && d.country_code)
timelineRows(csv) ==
    SelectSeq(csv, LAMBDA d : d.medal_date # NoText /\ d.country_code # "")

\* data.filter(country) and, when a discipline is selected, .filter(discipline)
timelineFiltered(data, code, disc) ==
    LET byCountry == SelectSeq(data, LAMBDA d : d.country_code = code)
    IN  IF disc # NULL /\ disc # ""
        THEN SelectSeq(byCountry, LAMBDA d : d.discipline = disc)
        ELSE byCountry

countOf(v, mt) == Len(SelectSeq(v, LAMBDA d : d.medal_type = mt))

\* d3.rollups(filtered, counts, (d) => d.medal_date): one group per distinct
\* medal_date text, in first-encountered order
grouped(filtered) ==
    LET keys == Distinct([i \in 1..Len(filtered) |-> filtered[i].medal_date])
    IN  [i \in 1..Len(keys) |->
            LET v == SelectSeq(filtered, LAMBDA d : d.medal_date = keys[i])
            IN  [key |-> keys[i],
                 gold |-> countOf(v, "Gold Medal"),
                 silver |-> countOf(v, "Silver Medal"),
                 bronze |-> countOf(v, "Bronze Medal")]]

\* Array.prototype.sort((a, b) => a.date - b.date): ascending, stable
insertByDate(entries, x) ==
    LET k == Cardinality({i \in 1..Len(entries) : entries[i].date <= x.date})
    IN  SubSeq(entries, 1, k) \o <<x>> \o SubSeq(entries, k + 1, Len(entries))

RECURSIVE sortByDate(_)
sortByDate(entries) ==
    IF entries = <<>> THEN <<>>
    ELSE insertByDate(sortByDate(Front(entries)), entries[Len(entries)])

\* grouped.map(parse, total).filter(not null).sort(by date)
seriesData(data, code, disc) ==
    LET g == grouped(timelineFiltered(data, code, disc))
        mapped == [i \in 1..Len(g) |->
                      [date |-> parseDate(g[i].key),
                       gold |-> g[i].gold,
                       silver |-> g[i].silver,
                       bronze |-> g[i].bronze,
                       total |-> g[i].gold + g[i].silver + g[i].bronze]]
    IN  sortByDate(SelectSeq(mapped, LAMBDA e : e.date # InvalidDate))

----------------------------------------------------------------------------
(* DisciplineHeatmap: top disciplines and the cell matrix *)

\* the row accessor keeps medal_type, discipline and country_code;
\* rows.filter((d) => d.discipline && d.country_code)
heatmapRows(csv) ==
    LET rows == [i \in 1..Len(csv) |->
                    [medal_type |-> csv[i].medal_type,
                     discipline |-> csv[i].discipline,
                     country_code |-> csv[i].country_code]]
    IN  SelectSeq(rows, LAMBDA d : d.discipline # "" /\ d.country_code # "")

heatmapFilteredAllCountries(data, code) == data

\* data.filter((d) => d.country_code === selectedCountryCode)
heatmapFiltered(data, code) ==
    SelectSeq(data, LAMBDA d : d.country_code = code)

\* d3.rollups(filtered, (v) => v.length, (d) => d.discipline)
byDiscipline(filtered) ==
    LET keys == Distinct([i \in 1..Len(filtered) |-> filtered[i].discipline])
    IN  [i \in 1..Len(keys) |->
            [discipline |-> keys[i],
             count |-> Len(SelectSeq(filtered, LAMBDA d : d.discipline = keys[i]))]]

insertByCountUnstable(entries, x) ==
    LET k == Cardinality({i \in 1..Len(entries) : entries[i].count > x.count})
    IN  SubSeq(entries, 1, k) \o <<x>> \o SubSeq(entries, k + 1, Len(entries))

\* Array.prototype.sort((a, b) => b[1] - a[1]): descending by count, stable
insertByCount(entries, x) ==
    LET k == Cardinality({i \in 1..Len(entries) : entries[i].count >= x.count})
    IN  SubSeq(entries, 1, k) \o <<x>> \o SubSeq(entries, k + 1, Len(entries))

RECURSIVE sortByCount(_)
sortByCount(entries) ==
    IF entries = <<>> THEN <<>>
    ELSE insertByCount(sortByCount(Front(entries)), entries[Len(entries)])

\* byDiscipline.sort(...).slice(0, 12).map(([discipline]) => discipline)
topDisciplines(filtered) ==
    LET sorted == sortByCount(byDiscipline(filtered))
        top == SubSeq(sorted, 1, Min2(TopLimit, Len(sorted)))
    IN  [i \in 1..Len(top) |-> top[i].discipline]

cellsSparse(filtered) ==
    LET top == topDisciplines(filtered)
        n == Len(medalTypes)
        dense == [c \in 1..(Len(top) * n) |->
                    LET discipline == top[((c - 1) \div n) + 1]
                        medalType == medalTypes[((c - 1) % n) + 1]
                    IN  [discipline |-> discipline,
                         medalType |-> medalType,
                         count |-> Len(SelectSeq(filtered,
                                      LAMBDA d : d.discipline = discipline
                                                 /\ d.medal_type = medalType))]]
    IN  SelectSeq(dense, LAMBDA cell : cell.count > 0)

\* topDisciplines.forEach(medalTypes.forEach(cells.push(...)))
cells(filtered) ==
    LET top == topDisciplines(filtered)
        n == Len(medalTypes)
    IN  [c \in 1..(Len(top) * n) |->
            LET discipline == top[((c - 1) \div n) + 1]
                medalType == medalTypes[((c - 1) % n) + 1]
            IN  [discipline |-> discipline,
                 medalType |-> medalType,
                 count |-> Len(SelectSeq(filtered,
                              LAMBDA d : d.discipline = discipline
                                         /\ d.medal_type = medalType))]]

----------------------------------------------------------------------------
(* CountryTreemap: rows of medals_total.csv *)

TotalRow(cc, name, g, sv, b, t) ==
    [country_code |-> cc, country |-> name, gold |-> g, silver |-> sv,
     bronze |-> b, total |-> t]

\* rows.filter((d) => d.country_code)
treemapRows(csv) == SelectSeq(csv, LAMBDA d : d.country_code # "")

----------------------------------------------------------------------------
(* Files the model loads *)

\* medals_total.csv: GER is listed but has no row in medals.csv
TotalsCsv ==
    << TotalRow("USA", "United States", 2, 1, 0, 3),
       TotalRow("FRA", "France", 1, 0, 1, 2),
       TotalRow("GER", "Germany", 0, 0, 0, 0),
       TotalRow("", "Unknown", 0, 0, 0, 0) >>

\* medals.csv of the dashboard runs: Swimming is a discipline of USA and FRA
DashboardCsv ==
    << Row("Gold Medal", D0728, "USA", "Swimming"),
       Row("Silver Medal", D0728, "USA", "Swimming"),
       Row("Gold Medal", D0729, "USA", "Athletics"),
       Row("Gold Medal", D0728, "FRA", "Judo"),
       Row("Bronze Medal", D0729, "FRA", "Swimming") >>

\* rows the aggregation runs draw their medals.csv from
RowPool ==
    { Row("Gold Medal", D0728, "USA", "Swimming"),
      Row("Silver Medal", D0728, "USA", "Swimming"),
      Row("Gold Medal", D0729, "USA", "Athletics"),
      Row("Bronze Medal", D728, "USA", "Swimming"),
      Row("Bronze Medal", D072x, "USA", "Athletics"),
      Row("Gold Medal", D0728, "FRA", "Judo"),
      Row("Silver Medal", D0729, "FRA", "Swimming"),
      Row("Bronze Medal", NoText, "USA", "Judo"),
      Row("Gold Medal", D0729, "USA", "") }

DisciplineNames ==
    << "Archery", "Athletics", "Boxing", "Cycling", "Diving", "Fencing",
       "Golf", "Handball", "Judo", "Rowing", "Sailing", "Swimming",
       "Tennis", "Wrestling" >>

\* a file with one USA gold medal in each of the first n disciplines
BaseCsv(n) ==
    [i \in 1..n |-> Row("Gold Medal", D0728, "USA", DisciplineNames[i])]

TailPool ==
    { Row("Gold Medal", D0729, "USA", DisciplineNames[TopLimit + 1]),
      Row("Silver Medal", D0729, "USA", DisciplineNames[TopLimit]),
      Row("Bronze Medal", D0729, "USA", DisciplineNames[TopLimit + 2]),
      Row("Gold Medal", D0729, "FRA", DisciplineNames[TopLimit + 1]) }

\* the medals.csv contents of the aggregation runs
CsvInputs ==
    SeqsUpTo(RowPool, MaxRows)
    \cup {BaseCsv(TopLimit) \o t : t \in SeqsUpTo(TailPool, MaxTail)}

Countries == {<<"USA", "United States">>, <<"FRA", "France">>, <<"GER", "Germany">>}

Disciplines == {"Swimming", "Athletics", "Judo"}

----------------------------------------------------------------------------
(* View state *)

\* d3.zoomIdentity
Identity == [k |-> 1, x |-> 0]

Unsized == [width |-> 0, height |-> 0]
Sized == [width |-> 400, height |-> 300]

BlankTimeline ==
    [kind |-> "blank", code |-> "", name |-> "", disc |-> NULL, message |-> "",
     series |-> <<>>, transform |-> Identity]

BlankHeatmap ==
    [kind |-> "blank", code |-> "", name |-> "", message |-> "",
     top |-> <<>>, cells |-> <<>>]

BlankTreemap ==
    [kind |-> "blank", leaves |-> {}, selected |-> "", domain |-> <<0, 0>>]

\* history of the most recent user event: which it was (op), whether it changed
\* the value it selects, the transform in effect before a selection event, and
\* which selection event came last (sel)
\* <div id="timeline-tooltip"> before any mousemove: no text, not displayed
HiddenTooltip == [display |-> FALSE, point |-> NULL]

NoEvent ==
    [op |-> "none", changed |-> FALSE, moved |-> FALSE, prevZoom |-> Identity,
     sel |-> "none", inflight |-> {}, pointed |-> 0]

----------------------------------------------------------------------------
(* Effects.  React runs the effects of a commit in declaration order; each   *)
(* reads the props and state of the render that was committed.              *)

Truthy(text) == text # NULL /\ text # ""

emptyMessageIgnoringDiscipline(discipline) == "No medals recorded for this country."

\* the text drawn in place of the chart when seriesData is empty
emptyMessage(discipline) ==
    IF Truthy(discipline)
    THEN "No medals in this discipline."
    ELSE "No medals recorded for this country."

\* MedalTimeline's render effect
TimelineRenderEffect ==
    IF Len(tlData) = 0 \/ tlSize.width = 0 \/ tlSize.height = 0
    THEN UNCHANGED <<tlView, svgZoom, zoomBound, zoomQueued>>
    ELSE LET series == seriesData(tlData, selectedCountryCode, selectedDiscipline)
             drawn == [kind |-> "chart", code |-> selectedCountryCode,
                       name |-> selectedCountryName, disc |-> selectedDiscipline,
                       message |-> "", series |-> series,
                       transform |-> zoomTransform]
         IN  IF Len(series) = 0
             THEN /\ tlView' = [drawn EXCEPT
                                 !.kind = "empty",
                                 !.message = emptyMessage(selectedDiscipline)]
                  /\ UNCHANGED <<svgZoom, zoomBound, zoomQueued>>
             ELSE /\ tlView' = drawn
                  \* svg.call(zoomBehavior); zoomBehavior.transform(svg, zoomTransform)
                  \* sets __zoom and emits a zoom event, whose listener calls
                  \* setZoomTransform(event.transform)
                  /\ zoomBound' = TRUE
                  /\ svgZoom' = zoomTransform
                  /\ zoomQueued' = zoomTransform

ZoomResetDepsDisciplineOnly(code, name, disc) == <<disc>>

ZoomResetDepsCountryOnly(code, name, disc) == <<code>>

\* the dependencies of the zoom reset effect
ZoomResetDeps(code, name, disc) == <<code, disc>>

\* MedalTimeline's zoom reset effect: setZoomTransform(d3.zoomIdentity)
ZoomResetEffect == zoomQueued' = Identity

\* DisciplineHeatmap's render effect
HeatmapRenderEffect ==
    IF Len(hmData) = 0 \/ hmSize.width = 0 \/ hmSize.height = 0
    THEN UNCHANGED hmView
    ELSE LET filtered == heatmapFiltered(hmData, selectedCountryCode)
             matrix == cells(filtered)
             drawn == [kind |-> "chart", code |-> selectedCountryCode,
                       name |-> selectedCountryName, message |-> "",
                       top |-> topDisciplines(filtered), cells |-> matrix]
         IN  IF Len(matrix) = 0
             THEN hmView' = [drawn EXCEPT
                               !.kind = "empty",
                               !.message =
                                   "No discipline-level medals recorded for this country."]
             ELSE hmView' = drawn

SetMin(S) == CHOOSE m \in S : \A n \in S : m <= n
SetMax(S) == CHOOSE m \in S : \A n \in S : m >= n

\* CountryTreemap's render effect
TreemapRenderEffect ==
    IF Len(tmData) = 0 \/ tmSize.width = 0 \/ tmSize.height = 0
    THEN UNCHANGED tmView
    ELSE LET totals == {tmData[i].total : i \in 1..Len(tmData)}
         IN  tmView' = [kind |-> "chart",
                        leaves |-> {<<tmData[i].country_code, tmData[i].country>> :
                                       i \in 1..Len(tmData)},
                        selected |-> selectedCountryCode,
                        domain |-> <<SetMin(totals), SetMax(totals)>>]

----------------------------------------------------------------------------
(* Steps of the effect flush *)

\* no effect is waiting and no state update is queued
Quiescent == pending = <<>> /\ zoomQueued = zoomTransform

RunTreemapRender ==
    /\ pending # <<>> /\ Head(pending) = "tmRender"
    /\ TreemapRenderEffect
    /\ pending' = Tail(pending)
    /\ UNCHANGED <<appVars, tmData, tmSize, tmLoad, tlVars, hmVars, consoleErrors, lastEvent, tooltip>>

RunTimelineRender ==
    /\ pending # <<>> /\ Head(pending) = "tlRender"
    /\ TimelineRenderEffect
    /\ pending' = Tail(pending)
    /\ UNCHANGED <<appVars, tmVars, tlData, tlSize, tlLoad, zoomTransform, hmVars,
                   consoleErrors, lastEvent, tooltip>>

RunZoomReset ==
    /\ pending # <<>> /\ Head(pending) = "tlReset"
    /\ ZoomResetEffect
    /\ pending' = Tail(pending)
    /\ UNCHANGED <<appVars, tmVars, tlData, tlSize, tlLoad, tlView, zoomTransform,
                   svgZoom, zoomBound, hmVars, consoleErrors, lastEvent, tooltip>>

RunHeatmapRender ==
    /\ pending # <<>> /\ Head(pending) = "hmRender"
    /\ HeatmapRenderEffect
    /\ pending' = Tail(pending)
    /\ UNCHANGED <<appVars, tmVars, tlVars, hmData, hmSize, hmLoad, consoleErrors, lastEvent, tooltip>>

\* the queued setZoomTransform is committed: MedalTimeline renders again and
\* its render effect, which depends on zoomTransform, is scheduled
CommitZoom ==
    /\ pending = <<>>
    /\ zoomQueued # zoomTransform
    /\ zoomTransform' = zoomQueued
    /\ pending' = <<"tlRender">>
    /\ UNCHANGED <<appVars, tmVars, tlData, tlSize, tlLoad, tlView, zoomQueued, svgZoom,
                   zoomBound, hmVars, consoleErrors, lastEvent, tooltip>>

----------------------------------------------------------------------------
(* Layout: selection state and the effects a selection change schedules *)

handleSelectCountryKeepsDiscipline(code, name) ==
    /\ selectedCountryCode' = code
    /\ selectedCountryName' = name
    /\ UNCHANGED selectedDiscipline

\* Layout.handleSelectCountry
handleSelectCountry(code, name) ==
    /\ selectedCountryCode' = code
    /\ selectedCountryName' = name
    /\ selectedDiscipline' = NULL

setSelectedDisciplineResetsCountry(discipline) ==
    /\ selectedDiscipline' = discipline
    /\ selectedCountryCode' = "USA"
    /\ selectedCountryName' = "United States"

\* onSelectDiscipline={setSelectedDiscipline}
setSelectedDiscipline(discipline) ==
    /\ selectedDiscipline' = discipline
    /\ UNCHANGED <<selectedCountryCode, selectedCountryName>>

TimelineRenderDepsWithoutSelection(code, name, disc) == <<>>

\* the selection props in the dependencies of each render effect
TimelineRenderDeps(code, name, disc) == <<code, name, disc>>
HeatmapRenderDeps(code, name, disc) == <<code, name>>

\* The effects scheduled when Layout's state goes from <<oc, on, od>> to
\* <<nc, nn, nd>>.  When no state changed every setter bailed out and nothing
\* renders.  Otherwise Layout renders, handleSelectCountry is a new function,
\* so the treemap's effect (which depends on onSelectCountry) always runs.
LayoutEffects(oc, on, od, nc, nn, nd) ==
    IF <<oc, on, od>> = <<nc, nn, nd>> THEN <<>>
    ELSE <<"tmRender">>
         \o (IF TimelineRenderDeps(oc, on, od) # TimelineRenderDeps(nc, nn, nd)
             THEN <<"tlRender">> ELSE <<>>)
         \o (IF ZoomResetDeps(oc, on, od) # ZoomResetDeps(nc, nn, nd)
             THEN <<"tlReset">> ELSE <<>>)
         \o (IF HeatmapRenderDeps(oc, on, od) # HeatmapRenderDeps(nc, nn, nd)
             THEN <<"hmRender">> ELSE <<>>)

\* history: the views whose csv request has not settled yet
LoadsInFlight ==
    {v \in {"treemap", "timeline", "heatmap"} :
        \/ v = "treemap" /\ tmLoad = "loading"
        \/ v = "timeline" /\ tlLoad = "loading"
        \/ v = "heatmap" /\ hmLoad = "loading"}

\* a click on a treemap leaf: onSelectCountry(d.data.country_code, d.data.country)
SelectCountry(code, name) ==
    /\ Quiescent
    /\ tmView.kind = "chart"
    /\ <<code, name>> \in tmView.leaves
    /\ handleSelectCountry(code, name)
    /\ pending' = LayoutEffects(selectedCountryCode, selectedCountryName,
                                selectedDiscipline, selectedCountryCode',
                                selectedCountryName', selectedDiscipline')
    /\ lastEvent' = [op |-> "selectCountry", changed |-> code # selectedCountryCode,
                     moved |-> appVars' # appVars,
                     prevZoom |-> zoomTransform, sel |-> "selectCountry",
                     inflight |-> LoadsInFlight, pointed |-> 0]
    /\ UNCHANGED <<tmVars, tlVars, hmVars, consoleErrors, tooltip>>

\* a click in the heatmap: onSelectDiscipline(discipline | null)
SelectDiscipline(discipline) ==
    /\ Quiescent
    /\ hmView.kind = "chart"
    /\ discipline \in Range(hmView.top) \cup {NULL}
    /\ setSelectedDiscipline(discipline)
    /\ pending' = LayoutEffects(selectedCountryCode, selectedCountryName,
                                selectedDiscipline, selectedCountryCode',
                                selectedCountryName', selectedDiscipline')
    /\ lastEvent' = [op |-> "selectDiscipline",
                     changed |-> discipline # selectedDiscipline,
                     moved |-> appVars' # appVars,
                     prevZoom |-> zoomTransform, sel |-> "selectDiscipline",
                     inflight |-> LoadsInFlight, pointed |-> 0]
    /\ UNCHANGED <<tmVars, tlVars, hmVars, consoleErrors, tooltip>>

----------------------------------------------------------------------------
(* MedalTimeline: zoom and pan gestures handled by d3-zoom on #timeline-svg *)

clampScaleNoUpperLimit(k) == IF k < MinScale THEN MinScale ELSE k

\* scaleExtent([1, 32])
clampScale(k) ==
    IF k < MinScale THEN MinScale ELSE IF k > MaxScale THEN MaxScale ELSE k

WheelFactors == {2, 16}

ZoomEventClearsDiscipline(transform) ==
    /\ svgZoom' = transform
    /\ zoomQueued' = transform
    /\ selectedDiscipline' = NULL
    /\ lastEvent' = [op |-> "zoom", changed |-> TRUE, moved |-> FALSE,
                     prevZoom |-> Identity, sel |-> lastEvent.sel,
                     inflight |-> {}, pointed |-> 0]
    /\ UNCHANGED <<selectedCountryCode, selectedCountryName, tmVars, tlData, tlSize,
                   tlLoad, tlView, zoomTransform, zoomBound, hmVars, pending,
                   consoleErrors, tooltip>>

\* the listener .on('zoom', (event) => setZoomTransform(event.transform))
ZoomEvent(transform) ==
    /\ svgZoom' = transform
    /\ zoomQueued' = transform
    /\ lastEvent' = [op |-> "zoom", changed |-> TRUE, moved |-> FALSE,
                     prevZoom |-> Identity, sel |-> lastEvent.sel,
                     inflight |-> {}, pointed |-> 0]
    /\ UNCHANGED <<appVars, tmVars, tlData, tlSize, tlLoad, tlView, zoomTransform,
                   zoomBound, hmVars, pending, consoleErrors, tooltip>>

\* a wheel gesture with the pointer over the transform's origin: the scale is
\* multiplied or divided, clamped to the scale extent, the translation kept
WheelZoom(factor, inward) ==
    /\ Quiescent
    /\ zoomBound
    /\ LET k == clampScale(IF inward THEN svgZoom.k * factor
                                     ELSE svgZoom.k \div factor)
       IN  /\ k # svgZoom.k
           /\ ZoomEvent([svgZoom EXCEPT !.k = k])

\* a drag gesture: the translation moves by dx (translateExtent is unbounded)
Pan(dx) ==
    /\ Quiescent
    /\ zoomBound
    /\ svgZoom.x + dx \in (0 - MaxPan)..MaxPan
    /\ ZoomEvent([svgZoom EXCEPT !.x = svgZoom.x + dx])

----------------------------------------------------------------------------
(* MedalTimeline: the hover readout of the overlay rect *)

\* Date.getTime(), in ticks of 1/TicksPerDay of a day
getTime(date) == date * TicksPerDay

\* d3.bisector(accessor).left(a, x, lo, hi): halves [lo, hi) until lo = hi
RECURSIVE bisectLeftFrom(_, _, _, _)
bisectLeftFrom(a, x, lo, hi) ==
    IF lo < hi
    THEN LET mid == (lo + hi) \div 2
         IN  IF getTime(a[mid + 1].date) < x
             THEN bisectLeftFrom(a, x, mid + 1, hi)
             ELSE bisectLeftFrom(a, x, lo, mid)
    ELSE lo

\* const bisect = d3.bisector((d) => d.date.getTime()).left (a zero-based index)
bisect(a, x) == bisectLeftFrom(a, x, 0, Len(a))

\* the dates xScale.invert(x) can give for a pointer over the overlay: from
\* one tick before the first entry to one tick after the last
PointedDates(series) ==
    IF series = <<>> THEN {}
    ELSE (getTime(series[1].date) - 1)..(getTime(series[Len(series)].date) + 1)

\* overlay.on('mousemove', ...): date is xScale.invert(margin.left + offsetX)
Hover(date) ==
    /\ Quiescent
    /\ tlView.kind = "chart"
    /\ LET i == Min2(bisect(tlView.series, date), Len(tlView.series) - 1)
           point == tlView.series[i + 1]
       IN  tooltip' = [display |-> TRUE, point |-> point]
    /\ lastEvent' = [op |-> "hover", changed |-> FALSE, moved |-> FALSE,
                     prevZoom |-> Identity, sel |-> lastEvent.sel,
                     inflight |-> {}, pointed |-> date]
    /\ UNCHANGED <<appVars, tmVars, tlVars, hmVars, pending, consoleErrors>>

\* overlay.on('mouseleave', ...): tooltip.style.display = 'none'
MouseLeave ==
    /\ Quiescent
    /\ tlView.kind = "chart"
    /\ tooltip.display
    /\ tooltip' = [tooltip EXCEPT !.display = FALSE]
    /\ UNCHANGED <<appVars, tmVars, tlVars, hmVars, pending, consoleErrors, lastEvent>>

----------------------------------------------------------------------------
(* Data loads and resizes *)

CsvFiles == {DashboardCsv}


\* MedalTimeline.loadData resolves: setData(rows.filter(...))
LoadTimeline(csv) ==
    /\ Quiescent
    /\ tlLoad = "loading"
    /\ tlLoad' = "ok"
    /\ tlData' = timelineRows(csv)
    /\ pending' = <<"tlRender">>
    /\ UNCHANGED <<appVars, tmVars, tlSize, tlView, zoomTransform, zoomQueued, svgZoom,
                   zoomBound, hmVars, consoleErrors, lastEvent, tooltip>>

\* MedalTimeline.loadData rejects: console.error, data stays []
FailTimeline ==
    /\ Quiescent
    /\ tlLoad = "loading"
    /\ tlLoad' = "failed"
    /\ consoleErrors' = consoleErrors \cup {<<"MedalTimeline", "Error loading medals.csv:">>}
    /\ UNCHANGED <<appVars, tmVars, tlData, tlSize, tlView, zoomTransform, zoomQueued,
                   svgZoom, zoomBound, hmVars, pending, lastEvent, tooltip>>

LoadHeatmap(csv) ==
    /\ Quiescent
    /\ hmLoad = "loading"
    /\ hmLoad' = "ok"
    /\ hmData' = heatmapRows(csv)
    /\ pending' = <<"hmRender">>
    /\ UNCHANGED <<appVars, tmVars, tlVars, hmSize, hmView, consoleErrors, lastEvent, tooltip>>

FailHeatmap ==
    /\ Quiescent
    /\ hmLoad = "loading"
    /\ hmLoad' = "failed"
    /\ consoleErrors' = consoleErrors \cup {<<"DisciplineHeatmap", "Error loading medals.csv:">>}
    /\ UNCHANGED <<appVars, tmVars, tlVars, hmData, hmSize, hmView, pending, lastEvent, tooltip>>

LoadTreemap(csv) ==
    /\ Quiescent
    /\ tmLoad = "loading"
    /\ tmLoad' = "ok"
    /\ tmData' = treemapRows(csv)
    /\ pending' = <<"tmRender">>
    /\ UNCHANGED <<appVars, tmSize, tmView, tlVars, hmVars, consoleErrors, lastEvent, tooltip>>

FailTreemap ==
    /\ Quiescent
    /\ tmLoad = "loading"
    /\ tmLoad' = "failed"
    /\ consoleErrors' = consoleErrors \cup {<<"CountryTreemap", "Error loading medals_total.csv:">>}
    /\ UNCHANGED <<appVars, tmData, tmSize, tmView, tlVars, hmVars, pending, lastEvent, tooltip>>

\* the sizes the resize observer reports
Sizes == {Sized}

\* onResize (debounced): setSize(nextSize)
ResizeTimeline(nextSize) ==
    /\ Quiescent
    /\ nextSize # tlSize
    /\ tlSize' = nextSize
    /\ pending' = <<"tlRender">>
    /\ UNCHANGED <<appVars, tmVars, tlData, tlLoad, tlView, zoomTransform, zoomQueued,
                   svgZoom, zoomBound, hmVars, consoleErrors, lastEvent, tooltip>>

ResizeHeatmap(nextSize) ==
    /\ Quiescent
    /\ nextSize # hmSize
    /\ hmSize' = nextSize
    /\ pending' = <<"hmRender">>
    /\ UNCHANGED <<appVars, tmVars, tlVars, hmData, hmLoad, hmView, consoleErrors, lastEvent, tooltip>>

ResizeTreemap(nextSize) ==
    /\ Quiescent
    /\ nextSize # tmSize
    /\ tmSize' = nextSize
    /\ pending' = <<"tmRender">>
    /\ UNCHANGED <<appVars, tmData, tmLoad, tmView, tlVars, hmVars, consoleErrors, lastEvent, tooltip>>

----------------------------------------------------------------------------
(* The dashboard *)

\* the state after the mount commit: every render effect returned at its
\* data.length === 0 guard, the reset effect set the identity it already had,
\* and the three loads are in flight
Init ==
    /\ selectedCountryCode = "USA"
    /\ selectedCountryName = "United States"
    /\ selectedDiscipline = NULL
    /\ tmData = <<>> /\ tmSize = Unsized /\ tmLoad = "loading" /\ tmView = BlankTreemap
    /\ tlData = <<>> /\ tlSize = Unsized /\ tlLoad = "loading" /\ tlView = BlankTimeline
    /\ zoomTransform = Identity /\ zoomQueued = Identity /\ svgZoom = Identity
    /\ zoomBound = FALSE
    /\ hmData = <<>> /\ hmSize = Unsized /\ hmLoad = "loading" /\ hmView = BlankHeatmap
    /\ pending = <<>>
    /\ consoleErrors = {}
    /\ tooltip = HiddenTooltip
    /\ lastEvent = NoEvent

Next ==
    \/ \E c \in Countries : SelectCountry(c[1], c[2])
    \/ \E d \in Disciplines \cup {NULL} : SelectDiscipline(d)
    \/ \E f \in WheelFactors, inward \in BOOLEAN : WheelZoom(f, inward)
    \/ \E dx \in {-1, 1} : Pan(dx)
    \/ \E date \in PointedDates(tlView.series) : Hover(date)
    \/ MouseLeave
    \/ \E csv \in CsvFiles : LoadTimeline(csv)
    \/ FailTimeline
    \/ \E csv \in CsvFiles : LoadHeatmap(csv)
    \/ FailHeatmap
    \/ LoadTreemap(TotalsCsv)
    \/ FailTreemap
    \/ \E sz \in Sizes : ResizeTimeline(sz)
    \/ \E sz \in Sizes : ResizeHeatmap(sz)
    \/ \E sz \in Sizes : ResizeTreemap(sz)
    \/ RunTreemapRender
    \/ RunTimelineRender
    \/ RunZoomReset
    \/ RunHeatmapRender
    \/ CommitZoom

Spec == Init /\ [][Next]_vars

----------------------------------------------------------------------------
(* The aggregation runs: a loaded medals.csv and a selection are drawn, and  *)
(* the timeline's and the heatmap's render effects are applied to them.      *)

InitAgg ==
    /\ \E c \in Countries :
          /\ selectedCountryCode = c[1]
          /\ selectedCountryName = c[2]
    /\ selectedDiscipline \in Disciplines \cup {NULL}
    /\ tmData = <<>> /\ tmSize = Unsized /\ tmLoad = "loading" /\ tmView = BlankTreemap
    /\ \E csv \in CsvInputs :
          /\ tlData = timelineRows(csv)
          /\ hmData = heatmapRows(csv)
    /\ tlSize = Sized /\ tlLoad = "ok" /\ tlView = BlankTimeline
    /\ zoomTransform = Identity /\ zoomQueued = Identity /\ svgZoom = Identity
    /\ zoomBound = FALSE
    /\ hmSize = Sized /\ hmLoad = "ok" /\ hmView = BlankHeatmap
    /\ pending = <<"tlRender", "hmRender">>
    /\ consoleErrors = {}
    /\ tooltip = HiddenTooltip
    /\ lastEvent = NoEvent

NextAgg ==
    \/ RunTimelineRender
    \/ RunHeatmapRender

SpecAgg == InitAgg /\ [][NextAgg]_vars

----------------------------------------------------------------------------
(* Selection state and zoom reset (checked under Spec) *)

\* C1: selectCountry leaves selectedDiscipline null from every prior state, so
\* a non-null selectedDiscipline was set by a selectDiscipline that came after
\* the most recent selectCountry: unless the last selection event was a
\* selectDiscipline, selectedDiscipline is null.
C1_CountryClearsDiscipline ==
    lastEvent.sel # "selectDiscipline" => selectedDiscipline = NULL

\* FRA, then Judo, then USA: the timeline still shows FRA - Judo (its effects
\* for the new selection have not run yet) and the discipline is already null
C1_Witness ==
    /\ lastEvent.op = "selectCountry"
    /\ selectedCountryCode = "USA"
    /\ selectedDiscipline = NULL
    /\ tlView.kind = "chart" /\ tlView.code = "FRA" /\ tlView.disc = "Judo"

\* C2: once the selection of a new country (a code different from the current
\* one) has been processed, and before any further gesture, the timeline's
\* zoom transform is the identity.
C2_NewCountryResetsZoom ==
    (Quiescent /\ lastEvent.op = "selectCountry" /\ lastEvent.changed)
        => zoomTransform = Identity

\* a new country was selected while the timeline was zoomed or panned
C2_Witness ==
    /\ Quiescent
    /\ lastEvent.op = "selectCountry" /\ lastEvent.changed
    /\ lastEvent.prevZoom # Identity
    /\ tlView.kind = "chart" /\ tlView.code = selectedCountryCode
    /\ zoomTransform = Identity

\* C3 as stated: after selectDiscipline(d) has been processed the transform
\* equals the transform before it (zoom persists across discipline changes).
C3_DisciplineKeepsZoom ==
    (Quiescent /\ lastEvent.op = "selectDiscipline")
        => zoomTransform = lastEvent.prevZoom

\* C3 amended: selectDiscipline(d) leaves the transform as it was only when d
\* is the discipline already selected; when d differs from the current
\* selectedDiscipline the transform is reset to the identity.
C3_DisciplineChangeResetsZoom ==
    (Quiescent /\ lastEvent.op = "selectDiscipline")
        => zoomTransform = (IF lastEvent.changed THEN Identity ELSE lastEvent.prevZoom)

\* a discipline was selected or cleared while the timeline was zoomed or panned
C3_Witness ==
    /\ Quiescent
    /\ lastEvent.op = "selectDiscipline" /\ lastEvent.changed
    /\ lastEvent.prevZoom # Identity
    /\ tlView.kind = "chart" /\ tlView.disc = selectedDiscipline

\* C4: a selectDiscipline(d) step, for a discipline or null, leaves
\* selectedCountryCode and selectedCountryName unchanged.
C4_DisciplineKeepsCountry ==
    [][(\E d \in Disciplines \cup {NULL} : SelectDiscipline(d))
          => UNCHANGED <<selectedCountryCode, selectedCountryName>>]_vars

\* a discipline was selected for a country other than the initial one
C4_Witness ==
    /\ lastEvent.op = "selectDiscipline" /\ lastEvent.changed
    /\ selectedDiscipline # NULL
    /\ selectedCountryCode = "FRA" /\ selectedCountryName = "France"

----------------------------------------------------------------------------
(* Aggregation (checked under SpecAgg) *)

\* the three-record USA scenario
ScenarioCsv ==
    << Row("Gold Medal", D0728, "USA", "Swimming"),
       Row("Silver Medal", D0728, "USA", "Swimming"),
       Row("Gold Medal", D0729, "USA", "Athletics") >>

\* the timeline's records that match the selection
TimelineMatches ==
    {i \in 1..Len(tlData) :
        /\ tlData[i].country_code = selectedCountryCode
        /\ selectedDiscipline # NULL => tlData[i].discipline = selectedDiscipline}

\* the dates present in the matching records
TimelineDates ==
    {parseDate(tlData[i].medal_date) : i \in TimelineMatches} \ {InvalidDate}

\* the heatmap's records of the selected country, and their disciplines
HeatmapMatches ==
    {i \in 1..Len(hmData) : hmData[i].country_code = selectedCountryCode}

HeatmapDisciplines == {hmData[i].discipline : i \in HeatmapMatches}

DisciplineCount(d) ==
    Cardinality({i \in HeatmapMatches : hmData[i].discipline = d})

FirstSeen(d) == SetMin({i \in HeatmapMatches : hmData[i].discipline = d})

\* a ranks before b: more records, or as many and encountered earlier
RanksBefore(a, b) ==
    \/ DisciplineCount(a) > DisciplineCount(b)
    \/ DisciplineCount(a) = DisciplineCount(b) /\ FirstSeen(a) < FirstSeen(b)

\* C5: the timeline series has strictly increasing dates (sorted ascending, no
\* two entries with the same date) and one entry per distinct date present in
\* the records that match the selection.
C5_SeriesStrictlyAscending ==
    tlView.kind # "blank" =>
        LET series == tlView.series
        IN  /\ \A i, j \in 1..Len(series) : i < j => series[i].date < series[j].date
            /\ {series[i].date : i \in 1..Len(series)} = TimelineDates
            /\ Len(series) = Cardinality(TimelineDates)

\* C6: each entry's gold, silver and bronze are the numbers of matching
\* records of the entry's date and that medal type, its total is their sum,
\* and the three-record USA scenario gives the two entries of the spec.
C6_SeriesCounts ==
    tlView.kind # "blank" =>
        LET series == tlView.series
            n(date, mt) ==
                Cardinality({i \in TimelineMatches :
                                /\ parseDate(tlData[i].medal_date) = date
                                /\ tlData[i].medal_type = mt})
        IN  /\ \A i \in 1..Len(series) :
                  /\ series[i].gold = n(series[i].date, "Gold Medal")
                  /\ series[i].silver = n(series[i].date, "Silver Medal")
                  /\ series[i].bronze = n(series[i].date, "Bronze Medal")
                  /\ series[i].total =
                         series[i].gold + series[i].silver + series[i].bronze
            /\ (tlData = ScenarioCsv /\ selectedCountryCode = "USA"
                  /\ selectedDiscipline = NULL)
                 => series =
                      << [date |-> localDate(2024, 6, 28), gold |-> 1, silver |-> 1,
                          bronze |-> 0, total |-> 2],
                         [date |-> localDate(2024, 6, 29), gold |-> 1, silver |-> 0,
                          bronze |-> 0, total |-> 1] >>

\* the selection's matching records write equal dates with equal text
SameDateSameText ==
    \A i, j \in TimelineMatches :
        (parseDate(tlData[i].medal_date) = parseDate(tlData[j].medal_date)
           /\ parseDate(tlData[i].medal_date) # InvalidDate)
          => tlData[i].medal_date = tlData[j].medal_date

\* C5 and C6 hold of every record set that writes equal dates with equal text
SeriesOfCanonicalDates ==
    SameDateSameText => C5_SeriesStrictlyAscending /\ C6_SeriesCounts

\* C7: the matrix has min(12, distinct disciplines of the country) * 3 rows,
\* exactly one for every (top discipline, medal type) pair, whose count is
\* the number of matching records, zero included.
C7_MatrixDense ==
    hmView.kind # "blank" =>
        LET matrix == hmView.cells
            top == hmView.top
        IN  /\ Len(top) = Min2(TopLimit, Cardinality(HeatmapDisciplines))
            /\ Len(matrix) =
                   Min2(TopLimit, Cardinality(HeatmapDisciplines)) * Len(medalTypes)
            /\ \A t \in Range(top), m \in Range(medalTypes) :
                  \E c \in 1..Len(matrix) :
                     /\ matrix[c].discipline = t /\ matrix[c].medalType = m
                     /\ matrix[c].count =
                            Cardinality({i \in HeatmapMatches :
                                            /\ hmData[i].discipline = t
                                            /\ hmData[i].medal_type = m})
                     /\ \A e \in 1..Len(matrix) :
                           (matrix[e].discipline = t /\ matrix[e].medalType = m)
                              => e = c
            /\ (hmData = heatmapRows(ScenarioCsv) /\ selectedCountryCode = "USA")
                 => /\ Len(matrix) = 6
                    /\ [discipline |-> "Athletics", medalType |-> "Silver Medal",
                        count |-> 0] \in Range(matrix)

\* a country with more than twelve disciplines: the matrix is cut to 36 rows
\* and holds rows of count 0
C7_Witness ==
    /\ hmView.kind = "chart"
    /\ Cardinality(HeatmapDisciplines) > TopLimit
    /\ Len(hmView.cells) = TopLimit * Len(medalTypes)
    /\ \E c \in 1..Len(hmView.cells) : hmView.cells[c].count = 0

\* C8: the top-disciplines list is the country's disciplines by descending
\* record count, equal counts in first-encountered order, cut to the first 12.
C8_TopDisciplinesStable ==
    hmView.kind # "blank" =>
        LET top == hmView.top
        IN  /\ Len(top) = Min2(TopLimit, Cardinality(HeatmapDisciplines))
            /\ Range(top) \subseteq HeatmapDisciplines
            /\ \A i, j \in 1..Len(top) : i < j => RanksBefore(top[i], top[j])
            /\ \A t \in Range(top), d \in HeatmapDisciplines \ Range(top) :
                  RanksBefore(t, d)
            /\ (hmData = heatmapRows(ScenarioCsv) /\ selectedCountryCode = "USA")
                 => top = <<"Swimming", "Athletics">>

\* more than twelve disciplines, the thirteenth tied with ones that are kept
C8_Witness ==
    /\ hmView.kind = "chart"
    /\ Cardinality(HeatmapDisciplines) > TopLimit
    /\ \E t \in Range(hmView.top), d \in HeatmapDisciplines \ Range(hmView.top) :
          DisciplineCount(t) = DisciplineCount(d)
    /\ \E i, j \in 1..Len(hmView.top) :
          i < j /\ DisciplineCount(hmView.top[i]) > DisciplineCount(hmView.top[j])
                /\ FirstSeen(hmView.top[i]) > FirstSeen(hmView.top[j])

\* C9: for a country code that matches no loaded record the timeline series
\* is empty, and the top-disciplines list and the matrix are empty.
C9_NoRecordsEmptyResults ==
    /\ (tlView.kind # "blank"
          /\ \A i \in 1..Len(tlData) : tlData[i].country_code # selectedCountryCode)
         => tlView.series = <<>>
    /\ (hmView.kind # "blank"
          /\ \A i \in 1..Len(hmData) : hmData[i].country_code # selectedCountryCode)
         => hmView.top = <<>> /\ hmView.cells = <<>>

\* both views rendered records of other countries for a country without any
C9_Witness ==
    /\ selectedCountryCode = "GER"
    /\ tlView.kind = "empty" /\ Len(tlData) > 0
    /\ hmView.kind = "empty" /\ Len(hmData) > 0

----------------------------------------------------------------------------
(* Load failure (checked under Spec) *)

\* what a failed load leaves behind in every view: the diagnostic is logged
\* and the view's data stays empty
LoadFailureLoggedAndEmpty ==
    /\ tlLoad = "failed" =>
          /\ <<"MedalTimeline", "Error loading medals.csv:">> \in consoleErrors
          /\ tlData = <<>>
    /\ hmLoad = "failed" =>
          /\ <<"DisciplineHeatmap", "Error loading medals.csv:">> \in consoleErrors
          /\ hmData = <<>>
    /\ tmLoad = "failed" =>
          /\ <<"CountryTreemap", "Error loading medals_total.csv:">> \in consoleErrors
          /\ tmData = <<>>

\* C10: when a load fails the failure is logged, the dataset stays empty, and
\* the view (once its size is known and its effects have run) shows an
\* explicit "no data" state rather than a blank chart.
C10_LoadFailureShowsNoData ==
    /\ LoadFailureLoggedAndEmpty
    /\ (tlLoad = "failed" /\ tlSize # Unsized /\ Quiescent) => tlView.kind = "empty"
    /\ (hmLoad = "failed" /\ hmSize # Unsized /\ Quiescent) => hmView.kind = "empty"
    /\ (tmLoad = "failed" /\ tmSize # Unsized /\ Quiescent) => tmView.kind = "empty"

----------------------------------------------------------------------------
(* Zoom scale (checked under Spec) *)

\* C11: in every reachable state the timeline's transform has a scale k with
\* 1 <= k <= 32: the committed state, the queued update, the svg's __zoom and
\* the transform the chart was last drawn with.
C11_ScaleWithinExtent ==
    /\ zoomTransform.k \in MinScale..MaxScale
    /\ zoomQueued.k \in MinScale..MaxScale
    /\ svgZoom.k \in MinScale..MaxScale
    /\ tlView.transform.k \in MinScale..MaxScale

\* a wheel gesture took the scale to the upper limit and the chart was drawn
\* with it
C11_Witness ==
    /\ lastEvent.op = "zoom"
    /\ Quiescent
    /\ zoomTransform.k = MaxScale
    /\ tlView.kind = "chart" /\ tlView.transform.k = MaxScale

----------------------------------------------------------------------------
(* Hover readout (checked under Spec) *)

Distance(a, b) == IF a < b THEN b - a ELSE a - b

\* C12: after a hover over the plotted area, the entry used for the readout
\* minimises the absolute distance between its date and the pointed date
\* among the entries of the drawn series.
C12_HoverResolvesNearest ==
    lastEvent.op = "hover"
        => \A i \in 1..Len(tlView.series) :
              Distance(getTime(tooltip.point.date), lastEvent.pointed)
                  <= Distance(getTime(tlView.series[i].date), lastEvent.pointed)

\* the entry the handler picks: the first one dated at or after the pointed
\* date, the last entry when there is none
HoverResolvesNextEntry ==
    lastEvent.op = "hover"
        => LET later == {i \in 1..Len(tlView.series) :
                            getTime(tlView.series[i].date) >= lastEvent.pointed}
           IN  IF later = {}
               THEN tooltip.point = tlView.series[Len(tlView.series)]
               ELSE \E i \in later :
                       /\ tooltip.point = tlView.series[i]
                       /\ \A j \in later : i <= j

----------------------------------------------------------------------------
(* Empty-state messages (checked under SpecAgg) *)

----------------------------------------------------------------------------
(* The timeline and the selection (checked under Spec) *)

\* a step taken by the timeline's own handlers: wheel, drag, mousemove,
\* mouseleave
TimelineGesture ==
    \/ \E f \in WheelFactors, inward \in BOOLEAN : WheelZoom(f, inward)
    \/ \E dx \in {-1, 1} : Pan(dx)
    \/ \E date \in PointedDates(tlView.series) : Hover(date)
    \/ MouseLeave

\* C14: a pan or zoom gesture and a hover leave selectedCountryCode,
\* selectedCountryName and selectedDiscipline (and the other views) as they
\* were, and every step that changes the selection is a selectCountry or a
\* selectDiscipline event.
C14_TimelineKeepsSelection ==
    [][/\ TimelineGesture => UNCHANGED <<appVars, tmVars, hmVars>>
       /\ appVars' # appVars =>
             \/ \E c \in Countries : SelectCountry(c[1], c[2])
             \/ \E d \in Disciplines \cup {NULL} : SelectDiscipline(d)]_vars

\* a zoom gesture was made and drawn while a country other than the initial
\* one and a discipline were selected
C14_Witness ==
    /\ lastEvent.op = "zoom"
    /\ Quiescent
    /\ zoomTransform # Identity /\ tlView.transform = zoomTransform
    /\ selectedCountryCode = "FRA"
    /\ selectedDiscipline = "Judo"

----------------------------------------------------------------------------
(* Order of the render and the reset effect (checked under Spec) *)

\* C15: after a selection event that changed the country or the discipline,
\* a chart drawn for the new selection never carries a non-identity
\* transform: no render step combines the new series with the transform left
\* over from the previous selection.
C15_NoRenderWithLeftoverZoom ==
    (/\ lastEvent.op \in {"selectCountry", "selectDiscipline"}
     /\ lastEvent.moved
     /\ tlView.kind = "chart"
     /\ tlView.code = selectedCountryCode
     /\ tlView.disc = selectedDiscipline)
        => tlView.transform = Identity

\* what the effects do instead: the first chart of the new selection is drawn
\* with the transform of the old one, and the chart drawn once every effect
\* and queued update has run has the identity
FirstRenderKeepsThenResets ==
    (/\ lastEvent.op \in {"selectCountry", "selectDiscipline"}
     /\ lastEvent.moved
     /\ tlView.kind = "chart"
     /\ tlView.code = selectedCountryCode
     /\ tlView.disc = selectedDiscipline)
        => /\ tlView.transform \in {lastEvent.prevZoom, Identity}
           /\ Quiescent => tlView.transform = Identity

----------------------------------------------------------------------------
(* Loads interleaved with selection events (checked under Spec) *)

\* every view that holds loaded records and a measured size, and whose render
\* effect is not waiting to run, shows the current selection
RendersUseCurrentSelection ==
    /\ (/\ tlLoad = "ok" /\ Len(tlData) > 0 /\ tlSize # Unsized
        /\ "tlRender" \notin Range(pending))
         => /\ tlView.kind \in {"chart", "empty"}
            /\ tlView.code = selectedCountryCode
            /\ tlView.name = selectedCountryName
            /\ tlView.disc = selectedDiscipline
            /\ tlView.series
                 = seriesData(tlData, selectedCountryCode, selectedDiscipline)
    /\ (/\ hmLoad = "ok" /\ Len(hmData) > 0 /\ hmSize # Unsized
        /\ "hmRender" \notin Range(pending))
         => /\ hmView.kind \in {"chart", "empty"}
            /\ hmView.code = selectedCountryCode
            /\ hmView.name = selectedCountryName
            /\ hmView.cells = cells(heatmapFiltered(hmData, selectedCountryCode))
    /\ (/\ tmLoad = "ok" /\ Len(tmData) > 0 /\ tmSize # Unsized
        /\ "tmRender" \notin Range(pending))
         => /\ tmView.kind = "chart"
            /\ tmView.selected = selectedCountryCode

\* a step in which a csv request settles, with records or with an error
LoadSettles == tlLoad' # tlLoad \/ hmLoad' # hmLoad \/ tmLoad' # tmLoad

\* C16: in every interleaving of the loads with the selection events, a view
\* whose load has resolved with data and whose size is known has its latest
\* render computed from the current selection, and the step in which a load
\* settles leaves the selection as it was.
C16_LoadsKeepCurrentSelection ==
    /\ []RendersUseCurrentSelection
    /\ [][LoadSettles => UNCHANGED appVars]_vars

\* France was selected while the timeline's and the heatmap's requests were
\* still in flight; both have resolved since and drawn France
C16_Witness ==
    /\ lastEvent.op = "selectCountry" /\ lastEvent.moved
    /\ {"timeline", "heatmap"} \subseteq lastEvent.inflight
    /\ selectedCountryCode = "FRA"
    /\ Quiescent
    /\ tlLoad = "ok" /\ tlView.kind = "chart" /\ tlView.code = "FRA"
    /\ hmLoad = "ok" /\ hmView.kind = "chart" /\ hmView.code = "FRA"

====
